---- MODULE Spec2Model ----
(***************************************************************************)
(* TCO LOA cost engine (tco_loa.py): the mileage-indemnity scale and the   *)
(* cost-category calculators, as pure functions applied to a configuration *)
(* dictionary.                                                             *)
(*                                                                         *)
(* Python floats are modelled as exact rationals [n |-> num, d |-> den]    *)
(* in lowest terms with d > 0 (rounding error of IEEE doubles is not       *)
(* modelled).  A dict is a function whose DOMAIN is the set of keys that   *)
(* are present; an absent key is a key outside the DOMAIN.                 *)
(***************************************************************************)
EXTENDS Integers, Sequences, FiniteSets, TLC

VARIABLES
    config,        \* the configuration dict handed to the calculators
    called,        \* name of the calculator that ran last ("none" before)
    result,        \* what that call returned (or the exception it raised)
    distance_km,   \* argument of k_amount_for_distance_km
    cv,            \* argument of k_amount_for_distance_km
    is_electric,   \* argument of k_amount_for_distance_km
    amount,        \* value returned by the last k_amount_for_distance_km call
    pc,            \* scale: "input" (arguments ready), "output" (call returned);
                   \* configuration: "loaded" (as read), "merged" (sections ensured)
    n_calls        \* number of scale evaluations made so far

vars == <<config, called, result, distance_km, cv, is_electric, amount, pc, n_calls>>

----------------------------------------------------------------------------
(* Exact rational arithmetic standing for Python float arithmetic.         *)

Abs(x) == IF x < 0 THEN -x ELSE x

RECURSIVE GCD(_, _)
GCD(a, b) == IF b = 0 THEN a ELSE GCD(b, a % b)

R(num, den) ==
    LET g == GCD(Abs(num), den)
    IN  IF g = 0 THEN [n |-> 0, d |-> 1] ELSE [n |-> num \div g, d |-> den \div g]

I(x) == [n |-> x, d |-> 1]

Zero == I(0)
One == I(1)

RMul(a, b) ==
    LET g1 == GCD(Abs(a.n), b.d)
        g2 == GCD(Abs(b.n), a.d)
    IN  IF a.n = 0 \/ b.n = 0 THEN Zero
        ELSE [n |-> (a.n \div g1) * (b.n \div g2), d |-> (a.d \div g2) * (b.d \div g1)]

RAdd(a, b) ==
    LET g == GCD(a.d, b.d)
    IN  R(a.n * (b.d \div g) + b.n * (a.d \div g), (a.d \div g) * b.d)

RNeg(a) == [n |-> -a.n, d |-> a.d]

RSub(a, b) == RAdd(a, RNeg(b))

RInv(a) == IF a.n > 0 THEN [n |-> a.d, d |-> a.n] ELSE [n |-> -a.d, d |-> -a.n]

RDiv(a, b) == RMul(a, RInv(b))

\* an/ad <= bn/bd by comparing integer parts, then the reciprocals of the
\* fractional parts: no product is formed, so nothing overflows
RECURSIVE FracLe(_, _, _, _)
FracLe(an, ad, bn, bd) ==
    LET fa == an \div ad
        fb == bn \div bd
        ra == an % ad
        rb == bn % bd
    IN  IF fa < fb THEN TRUE
        ELSE IF fa > fb THEN FALSE
        ELSE IF ra = 0 THEN TRUE
        ELSE IF rb = 0 THEN FALSE
        ELSE FracLe(bd, rb, ad, ra)

RLe(a, b) == FracLe(a.n, a.d, b.n, b.d)

RLt(a, b) == ~RLe(b, a)

RMax(a, b) == IF RLt(a, b) THEN b ELSE a

RMin(a, b) == IF RLt(b, a) THEN b ELSE a

\* int(x) of a float: truncation toward zero
int(x) == IF x.n >= 0 THEN x.n \div x.d ELSE -((-x.n) \div x.d)

\* a number written with three decimals, e.g. 0.636 = Milli(636)
Milli(x) == R(x, 1000)

None == [tag |-> "None"]

----------------------------------------------------------------------------
(* IK - French mileage-indemnity scale (cars).                             *)

coeffs_a2b_1395 ==
    [k \in 1..7 |->
        CASE k \in {1, 2, 3} -> [a1 |-> Milli(529), a2a |-> Milli(316), a2b |-> I(1065), a3 |-> Milli(370)]
          [] k = 4 -> [a1 |-> Milli(606), a2a |-> Milli(340), a2b |-> I(1330), a3 |-> Milli(407)]
          [] k = 5 -> [a1 |-> Milli(636), a2a |-> Milli(357), a2b |-> I(1395), a3 |-> Milli(427)]
          [] k = 6 -> [a1 |-> Milli(665), a2a |-> Milli(374), a2b |-> I(1435), a3 |-> Milli(447)]
          [] k = 7 -> [a1 |-> Milli(697), a2a |-> Milli(394), a2b |-> I(1517), a3 |-> Milli(470)]]

coeffs ==
    [k \in 1..7 |->
        CASE k = 1 -> [a1 |-> Milli(529), a2a |-> Milli(316), a2b |-> I(1065), a3 |-> Milli(370)]
          [] k = 2 -> [a1 |-> Milli(529), a2a |-> Milli(316), a2b |-> I(1065), a3 |-> Milli(370)]
          [] k = 3 -> [a1 |-> Milli(529), a2a |-> Milli(316), a2b |-> I(1065), a3 |-> Milli(370)]
          [] k = 4 -> [a1 |-> Milli(606), a2a |-> Milli(340), a2b |-> I(1330), a3 |-> Milli(407)]
          [] k = 5 -> [a1 |-> Milli(636), a2a |-> Milli(357), a2b |-> I(1385), a3 |-> Milli(427)]
          [] k = 6 -> [a1 |-> Milli(665), a2a |-> Milli(374), a2b |-> I(1435), a3 |-> Milli(447)]
          [] k = 7 -> [a1 |-> Milli(697), a2a |-> Milli(394), a2b |-> I(1517), a3 |-> Milli(470)]]

\* d = max(0.0, float(distance_km))
clamp_distance_raw(km) == km

clamp_distance(km) == RMax(Zero, km)

\* cv_key = 7 if cv >= 7 else max(1, int(cv))
cv_key_max6(fiscal) == IF fiscal >= 6 THEN 6 ELSE IF fiscal < 1 THEN 1 ELSE fiscal

cv_key(fiscal) == IF fiscal >= 7 THEN 7 ELSE IF 1 > fiscal THEN 1 ELSE fiscal

\* the three tiers: d <= 5000, d <= 20000, beyond
tier_amount(d, c) ==
    IF RLe(d, I(5000)) THEN RMul(d, c.a1)
    ELSE IF RLe(d, I(20000)) THEN RAdd(RMul(d, c.a2a), c.a2b)
    ELSE RMul(d, c.a3)

\* amount *= 1.20 when is_electric
ev_bonus(amt, electric) == IF electric THEN RMul(amt, R(120, 100)) ELSE amt

k_amount_bonus_before_tiers(km, fiscal, electric) ==
    LET d == clamp_distance(km)
        c == coeffs[cv_key(fiscal)]
    IN  tier_amount(ev_bonus(d, electric), c)

k_amount_for_distance_km(km, fiscal, electric) ==
    LET d == clamp_distance(km)
        c == coeffs[cv_key(fiscal)]
    IN  ev_bonus(tier_amount(d, c), electric)

----------------------------------------------------------------------------
(* Dict access, and exceptions as values.                                  *)

\* dict.get(key, default)
Get(dict, key, default) == IF key \in DOMAIN dict THEN dict[key] ELSE default

\* dict.get(key) is not None (a JSON null is not modelled: a field is either
\* absent or holds a number or a boolean)
Present(dict, key) == key \in DOMAIN dict

KeyError(key) == [tag |-> "KeyError", key |-> key]

\* a float once returned, as opposed to None or a raised exception
Returned(x) == "n" \in DOMAIN x

\* bool(x) of a JSON boolean
bool(x) == x

\* float(x) of a JSON number
float(x) == x

years_from_months(months) == R(months, 12)

Sections == {"deal", "energy", "maintenance", "insurance", "buyout", "ik"}

\* conf.setdefault(section, {}) for each of the six sections
ensure_sections(conf) ==
    [s \in Sections \cup DOMAIN conf |-> IF s \in DOMAIN conf THEN conf[s] ELSE << >>]

\* the command-line overrides: argument, section and field written, and
\* the conversion applied to the value
Ov(arg, section, field, conv) ==
    [arg |-> arg, section |-> section, field |-> field, conv |-> conv]

Overrides ==
    { Ov("months", "deal", "months", "int"),
      Ov("monthly_rent", "deal", "monthly_rent", "float"),
      Ov("annual_km", "deal", "annual_km", "int"),
      Ov("upfront", "deal", "upfront_costs", "float"),
      Ov("accessories", "deal", "accessories_total", "float"),
      Ov("other_fixed", "deal", "other_fixed_costs", "float"),
      Ov("charging_credits", "deal", "charging_credits_total", "float"),
      Ov("restitution_fees", "deal", "restitution_fees", "float"),
      Ov("actual_annual_km", "deal", "actual_annual_km", "float"),
      Ov("actual_total_km", "deal", "actual_total_km", "float"),
      Ov("excess_rate", "deal", "excess_rate_eur_per_km", "max0"),
      Ov("excess_free_km", "deal", "excess_free_km", "max0"),
      Ov("kwh_per_100", "energy", "kwh_per_100km", "float"),
      Ov("share_free", "energy", "share_free", "float"),
      Ov("home_price", "energy", "home_price_eur_per_kwh", "float"),
      Ov("public_price", "energy", "public_price_eur_per_kwh", "float"),
      Ov("share_home_paid", "energy", "share_home_of_paid", "float"),
      Ov("maint_year", "maintenance", "maint_eur_per_year", "float"),
      Ov("tire_cost", "maintenance", "tire_set_cost", "float"),
      Ov("tire_included", "maintenance", "tire_sets_included", "int"),
      Ov("tire_expected_total", "maintenance", "expected_tire_sets_total", "int"),
      Ov("ins_month", "insurance", "eur_per_month", "float"),
      Ov("buyout", "buyout", "enabled", "bool"),
      Ov("option_fee", "buyout", "option_fee", "float"),
      Ov("vr", "buyout", "residual_value", "float"),
      Ov("resale", "buyout", "resale_value_after_buyout", "float"),
      Ov("ik_enabled", "ik", "enabled", "bool"),
      Ov("ik_cv", "ik", "vehicle_cv", "int"),
      Ov("ik_ev", "ik", "is_electric", "bool"),
      Ov("ik_km_day", "ik", "km_per_day", "float"),
      Ov("ik_cap_km_day", "ik", "company_cap_km_per_day", "float"),
      Ov("ik_days", "ik", "worked_days", "float"),
      Ov("ik_days_is_annual", "ik", "days_is_annual", "bool"),
      Ov("ik_annualize", "ik", "annualize", "bool") }

converted(conv, v) ==
    CASE conv = "int" -> I(int(v))
      [] conv = "float" -> float(v)
      [] conv = "bool" -> bool(v)
      [] conv = "max0" -> RMax(Zero, float(v))

\* parse_args() when no override is given: every argument is None
NoArgs == << >>

\* args holds the arguments that are not None
merge_overrides(conf, args) ==
    LET cfg == ensure_sections(conf)
        given(s) == {o \in Overrides : o.section = s /\ o.arg \in DOMAIN args}
        merged(s) ==
            [f \in DOMAIN cfg[s] \cup {o.field : o \in given(s)} |->
                IF \E o \in given(s) : o.field = f
                    THEN LET o == CHOOSE o \in given(s) : o.field = f
                         IN  converted(o.conv, args[o.arg])
                    ELSE cfg[s][f]]
    IN  [s \in DOMAIN cfg |-> IF s \in Sections THEN merged(s) ELSE cfg[s]]

----------------------------------------------------------------------------
(* Cost-category calculators.                                              *)

contract_total_km(deal) ==
    LET annual_km == float(Get(deal, "annual_km", I(15000)))
        months == int(Get(deal, "months", I(48)))
    IN  RMul(annual_km, R(months, 12))

actual_total_km_truthy(deal) ==
    LET months == int(Get(deal, "months", I(48)))
    IN  IF Present(deal, "actual_total_km") /\ deal["actual_total_km"] # Zero
            THEN float(deal["actual_total_km"])
        ELSE IF Present(deal, "actual_annual_km")
            THEN RMul(float(deal["actual_annual_km"]), R(months, 12))
        ELSE None

actual_total_km_over_period(deal) ==
    LET months == int(Get(deal, "months", I(48)))
    IN  IF Present(deal, "actual_total_km")
            THEN float(deal["actual_total_km"])
        ELSE IF Present(deal, "actual_annual_km")
            THEN RMul(float(deal["actual_annual_km"]), R(months, 12))
        ELSE None

compute_energy_cost_on_actual_km(cfg) ==
    IF "deal" \notin DOMAIN cfg THEN KeyError("deal")
    ELSE IF "energy" \notin DOMAIN cfg THEN KeyError("energy")
    ELSE
    LET deal == cfg["deal"]
        energy == cfg["energy"]
        actual_km == actual_total_km_over_period(deal)
        total_km == IF actual_km = None THEN contract_total_km(deal) ELSE actual_km
        kwh_per_100 == float(Get(energy, "kwh_per_100km", I(17)))
        kwh_total == RMul(total_km, RDiv(kwh_per_100, I(100)))
        share_free == RMin(RMax(float(Get(energy, "share_free", Zero)), Zero), One)
        paid_kwh == RMul(kwh_total, RSub(One, share_free))
        share_home_paid == RMin(RMax(float(Get(energy, "share_home_of_paid", One)), Zero), One)
        home_kwh == RMul(paid_kwh, share_home_paid)
        public_kwh == RSub(paid_kwh, home_kwh)
        home_price == float(Get(energy, "home_price_eur_per_kwh", R(23, 100)))
        public_price == float(Get(energy, "public_price_eur_per_kwh", R(45, 100)))
    IN  RAdd(RMul(home_kwh, home_price), RMul(public_kwh, public_price))

compute_energy_cost(cfg) ==
    IF "deal" \notin DOMAIN cfg THEN KeyError("deal")
    ELSE IF "energy" \notin DOMAIN cfg THEN KeyError("energy")
    ELSE
    LET deal == cfg["deal"]
        energy == cfg["energy"]
        total_km == contract_total_km(deal)
        kwh_per_100 == float(Get(energy, "kwh_per_100km", I(17)))
        kwh_total == RMul(total_km, RDiv(kwh_per_100, I(100)))
        share_free == RMin(RMax(float(Get(energy, "share_free", Zero)), Zero), One)
        paid_kwh == RMul(kwh_total, RSub(One, share_free))
        share_home_paid == RMin(RMax(float(Get(energy, "share_home_of_paid", One)), Zero), One)
        home_kwh == RMul(paid_kwh, share_home_paid)
        public_kwh == RSub(paid_kwh, home_kwh)
        home_price == float(Get(energy, "home_price_eur_per_kwh", R(23, 100)))
        public_price == float(Get(energy, "public_price_eur_per_kwh", R(45, 100)))
    IN  RAdd(RMul(home_kwh, home_price), RMul(public_kwh, public_price))

compute_maintenance_cost(cfg) ==
    IF "deal" \notin DOMAIN cfg THEN KeyError("deal")
    ELSE IF "maintenance" \notin DOMAIN cfg THEN KeyError("maintenance")
    ELSE
    LET months == int(Get(cfg["deal"], "months", I(48)))
        years == years_from_months(months)
        m == cfg["maintenance"]
        maint_year == float(Get(m, "maint_eur_per_year", I(200)))
    IN  RMul(maint_year, years)

compute_tires_cost_signed(cfg) ==
    IF "maintenance" \notin DOMAIN cfg THEN KeyError("maintenance")
    ELSE
    LET m == cfg["maintenance"]
        tire_cost == float(Get(m, "tire_set_cost", I(700)))
        included == int(Get(m, "tire_sets_included", Zero))
        expected == int(Get(m, "expected_tire_sets_total", Zero))
    IN  RMul(I(expected - included), tire_cost)

compute_tires_cost(cfg) ==
    IF "maintenance" \notin DOMAIN cfg THEN KeyError("maintenance")
    ELSE
    LET m == cfg["maintenance"]
        tire_cost == float(Get(m, "tire_set_cost", I(700)))
        included == int(Get(m, "tire_sets_included", Zero))
        expected == int(Get(m, "expected_tire_sets_total", Zero))
        extra == IF expected - included > 0 THEN expected - included ELSE 0
    IN  RMul(I(extra), tire_cost)

compute_insurance_cost(cfg) ==
    IF "deal" \notin DOMAIN cfg THEN KeyError("deal")
    ELSE IF "insurance" \notin DOMAIN cfg THEN KeyError("insurance")
    ELSE
    LET months == int(Get(cfg["deal"], "months", I(48)))
        ins == cfg["insurance"]
        per_month == float(Get(ins, "eur_per_month", Zero))
    IN  RMul(per_month, I(months))

penalty_franchise_per_year(cfg) ==
    LET deal == cfg["deal"]
        contract_km == contract_total_km(deal)
        actual_km == actual_total_km_over_period(deal)
        rate == RMax(Zero, float(Get(deal, "excess_rate_eur_per_km", Zero)))
        free_km == RMul(RMax(Zero, float(Get(deal, "excess_free_km", Zero))),
                        R(int(Get(deal, "months", I(48))), 12))
    IN  IF ~Returned(actual_km) THEN Zero
        ELSE RMul(RMax(Zero, RSub(RSub(actual_km, contract_km), free_km)), rate)

compute_excess_mileage_penalty(cfg) ==
    IF "deal" \notin DOMAIN cfg THEN KeyError("deal")
    ELSE
    LET deal == cfg["deal"]
        contract_km == contract_total_km(deal)
        actual_km == actual_total_km_over_period(deal)
        rate == RMax(Zero, float(Get(deal, "excess_rate_eur_per_km", Zero)))
        free_km == RMax(Zero, float(Get(deal, "excess_free_km", Zero)))
        over_km == RMax(Zero, RSub(RSub(actual_km, contract_km), free_km))
    IN  IF ~Returned(actual_km) THEN Zero
        ELSE RMul(over_km, rate)

\* per_day_elig = min(km_per_day, company_cap) if company_cap > 0 else km_per_day
per_day_elig_always_capped(km_per_day, company_cap) == RMin(km_per_day, company_cap)

per_day_elig(km_per_day, company_cap) ==
    IF RLt(Zero, company_cap) THEN RMin(km_per_day, company_cap) ELSE km_per_day

\* the scale applied to the eligible distance: once per average year and
\* rescaled by years when annualize, else once to the total distance
ik_scaled_on_total(total_km_elig, years, fiscal, is_ev, annualize) ==
    k_amount_for_distance_km(total_km_elig, fiscal, is_ev)

ik_scaled(total_km_elig, years, fiscal, is_ev, annualize) ==
    IF annualize
        THEN LET km_per_year == RDiv(total_km_elig, years)
                 amount_per_year == k_amount_for_distance_km(km_per_year, fiscal, is_ev)
             IN  RMul(amount_per_year, years)
        ELSE k_amount_for_distance_km(total_km_elig, fiscal, is_ev)

compute_ik_amount_total(cfg) ==
    LET ik == Get(cfg, "ik", << >>)
    IN  IF ~bool(Get(ik, "enabled", FALSE)) THEN Zero
        ELSE IF "deal" \notin DOMAIN cfg THEN KeyError("deal")
        ELSE IF "months" \notin DOMAIN cfg["deal"] THEN KeyError("months")
        ELSE
        LET months == int(cfg["deal"]["months"])
            worked_days_input == float(Get(ik, "worked_days", Zero))
            days_is_annual == bool(Get(ik, "days_is_annual", TRUE))
            worked_days_total == IF days_is_annual
                                     THEN RMul(worked_days_input, R(months, 12))
                                     ELSE worked_days_input
            km_per_day == float(Get(ik, "km_per_day", Zero))
            company_cap == float(Get(ik, "company_cap_km_per_day", Zero))
            total_km_elig == RMul(per_day_elig(km_per_day, company_cap), worked_days_total)
            fiscal == int(Get(ik, "vehicle_cv", I(5)))
            is_ev == bool(Get(ik, "is_electric", TRUE))
            annualize == bool(Get(ik, "annualize", TRUE))
            years == RMax(R(months, 12), R(1, 1000000000))
        IN  IF RLe(total_km_elig, Zero) THEN Zero
            ELSE ik_scaled(total_km_elig, years, fiscal, is_ev, annualize)

----------------------------------------------------------------------------
(* The table of rows: main builds it, format_rows totals it.  Labels are   *)
(* written in ASCII; eur() and pct() only format the figures for printing  *)
(* and are left out: the report holds the figures themselves.              *)

\* rows.append((label, float(value)))
Row(label, value) == <<label, float(value)>>

RECURSIVE SumValues(_)
SumValues(rows) ==
    IF rows = << >> THEN Zero ELSE RAdd(rows[1][2], SumValues(Tail(rows)))

per_month_unguarded(value, months) ==
    IF months = 0 THEN [tag |-> "ZeroDivisionError"] ELSE RDiv(value, I(months))

\* value / months if months > 0 else 0.0
per_month_of(value, months) == IF months > 0 THEN RDiv(value, I(months)) ELSE Zero

\* (value / total * 100.0) if abs(total) > 1e-9 else 0.0
part_of(value, total) ==
    LET abs_total == IF RLt(total, Zero) THEN RNeg(total) ELSE total
    IN  IF RLt(R(1, 1000000000), abs_total)
            THEN RMul(RDiv(value, total), I(100))
            ELSE Zero

format_rows(rows, deal) ==
    LET months == int(Get(deal, "months", I(48)))
        total == SumValues(rows)
    IN  [rows |-> rows,
         total |-> total,
         per_month |-> [i \in DOMAIN rows |-> per_month_of(rows[i][2], months)],
         part |-> [i \in DOMAIN rows |-> part_of(rows[i][2], total)],
         total_per_month |-> per_month_of(total, months)]

credits_row_negated(credits) == RNeg(credits)

\* -abs(credits) if credits else 0.0
credits_row(credits) == IF RLt(credits, Zero) THEN credits ELSE RNeg(credits)

trailing_block_keeps_restitution(deal, bo) ==
    IF ~bool(Get(bo, "enabled", FALSE))
        THEN << Row("Frais de restitution", Get(deal, "restitution_fees", Zero)),
                Row("Frais d'option d'achat", Zero),
                Row("Valeur de rachat (VR)", Zero),
                Row("Revente (deduite)", Zero) >>
        ELSE << Row("Frais de restitution", Get(deal, "restitution_fees", Zero)),
                Row("Frais d'option d'achat", Get(bo, "option_fee", Zero)),
                Row("Valeur de rachat (VR)", Get(bo, "residual_value", Zero)),
                Row("Revente (deduite)",
                    IF Present(bo, "resale_value_after_buyout")
                        THEN RNeg(float(bo["resale_value_after_buyout"])) ELSE Zero) >>

\* the restitution scenario or the buyout scenario
trailing_block(deal, bo) ==
    IF ~bool(Get(bo, "enabled", FALSE))
        THEN << Row("Frais de restitution", Get(deal, "restitution_fees", Zero)),
                Row("Frais d'option d'achat", Zero),
                Row("Valeur de rachat (VR)", Zero),
                Row("Revente (deduite)", Zero) >>
        ELSE << Row("Frais de restitution", Zero),
                Row("Frais d'option d'achat", Get(bo, "option_fee", Zero)),
                Row("Valeur de rachat (VR)", Get(bo, "residual_value", Zero)),
                Row("Revente (deduite)",
                    IF Present(bo, "resale_value_after_buyout")
                        THEN RNeg(float(bo["resale_value_after_buyout"])) ELSE Zero) >>

\* main after merge_overrides: the rows, then format_rows; a calculator
\* that raises ends the run with its exception
main(cfg0) ==
    LET cfg == ensure_sections(cfg0)
        deal == cfg["deal"]
        bo == cfg["buyout"]
        months == int(Get(deal, "months", I(48)))
        calc == << compute_energy_cost(cfg), compute_maintenance_cost(cfg),
                   compute_tires_cost(cfg), compute_insurance_cost(cfg),
                   compute_excess_mileage_penalty(cfg), compute_ik_amount_total(cfg) >>
        raised == {i \in DOMAIN calc : ~Returned(calc[i])}
        rows == << Row("Loyers LOA", RMul(float(Get(deal, "monthly_rent", Zero)), I(months))),
                   Row("Energie (electricite)", calc[1]),
                   Row("Entretien", calc[2]),
                   Row("Pneus", calc[3]),
                   Row("Assurance", calc[4]),
                   Row("Immat/MISE EN MAIN", Get(deal, "upfront_costs", Zero)),
                   Row("Accessoires", Get(deal, "accessories_total", Zero)),
                   Row("Divers fixes", Get(deal, "other_fixed_costs", Zero)),
                   Row("Credits recharge (deduits)",
                       credits_row(float(Get(deal, "charging_credits_total", Zero)))),
                   Row("Depassement kilometrique (penalite)", calc[5]),
                   Row("Indemnites kilometriques (deduites)", RNeg(calc[6])) >>
                \o trailing_block(deal, bo)
    IN  IF raised # {}
            THEN calc[CHOOSE i \in raised : \A j \in raised : i <= j]
            ELSE format_rows(rows, deal)

----------------------------------------------------------------------------
(* The monthly cumulative series of the web front-end.  The function is    *)
(* imported from tco_loa but not defined there; it is written from section *)
(* 4.4 of the specification: each category's full-period total divided by  *)
(* months and accumulated, one entry per month.                            *)

RECURSIVE SumMonthly(_, _)
SumMonthly(rows, months) ==
    IF rows = << >> THEN Zero
    ELSE RAdd(RDiv(rows[1][2], I(months)), SumMonthly(Tail(rows), months))

RECURSIVE SumMonthlyCosts(_, _)
SumMonthlyCosts(rows, months) ==
    IF rows = << >> THEN Zero
    ELSE RAdd(RDiv(RMax(rows[1][2], Zero), I(months)),
              SumMonthlyCosts(Tail(rows), months))

\* entry i accumulates i monthly shares
accumulate(monthly, months) == [i \in 1..months |-> RMul(monthly, I(i))]

series_of_rows_costs_only(report, months) ==
    IF "rows" \notin DOMAIN report THEN report
    ELSE accumulate(SumMonthlyCosts(report.rows, months), months)

series_of_rows(report, months) ==
    IF "rows" \notin DOMAIN report THEN report
    ELSE accumulate(SumMonthly(report.rows, months), months)

tco_cumulatif_par_mois(cfg) ==
    series_of_rows(main(cfg), int(Get(ensure_sections(cfg)["deal"], "months", I(48))))

----------------------------------------------------------------------------
(* Bounds and input sets of the scale specification.                       *)

MaxCalls == 2

Distances ==
    {I(-100), I(0), I(1), I(4999), I(5000), R(10001, 2), I(5001), I(12000),
     I(19999), I(20000), I(20001), I(30000)}

CVs == -1..9

EmptyConfig == << >>

----------------------------------------------------------------------------
(* Specification of the scale: a caller evaluates the scale at a distance, *)
(* then at the next kilometre.                                             *)

InitScale ==
    /\ distance_km \in Distances
    /\ cv \in CVs
    /\ is_electric \in BOOLEAN
    /\ amount = None
    /\ pc = "input"
    /\ n_calls = 0
    /\ config = EmptyConfig
    /\ called = "none"
    /\ result = None

CallScale ==
    /\ pc = "input"
    /\ n_calls < MaxCalls
    /\ amount' = k_amount_for_distance_km(distance_km, cv, is_electric)
    /\ pc' = "output"
    /\ n_calls' = n_calls + 1
    /\ UNCHANGED <<config, called, result, distance_km, cv, is_electric>>

NextKm ==
    /\ pc = "output"
    /\ n_calls < MaxCalls
    /\ distance_km' = RAdd(distance_km, One)
    /\ pc' = "input"
    /\ UNCHANGED <<config, called, result, cv, is_electric, amount, n_calls>>

NextScale == CallScale \/ NextKm

SpecScale == InitScale /\ [][NextScale]_vars

----------------------------------------------------------------------------
(* Configurations.  A section is built from optional fields: each field is *)
(* either left out of the section or given one of a few values.            *)

Opt(key, values) == {<< >>} \cup {key :> v : v \in values}

\* the six sections, all empty: what ensure_sections leaves of {}
EmptySections == ensure_sections(EmptyConfig)

\* config with one section replaced
WithSection(cfg, name, section) == (name :> section) @@ cfg

----------------------------------------------------------------------------
(* Calls of the calculators on the configuration.                          *)

Call_writing_default_months(name, value) ==
    /\ pc = "merged"
    /\ called' = name
    /\ result' = value
    /\ config' = [s \in DOMAIN config |->
                    IF s = "deal" /\ "months" \notin DOMAIN config[s]
                        THEN ("months" :> I(48)) @@ config[s]
                        ELSE config[s]]
    /\ UNCHANGED <<distance_km, cv, is_electric, amount, pc, n_calls>>

Call(name, value) ==
    /\ pc = "merged"
    /\ called' = name
    /\ result' = value
    /\ UNCHANGED <<config, distance_km, cv, is_electric, amount, pc, n_calls>>

CallContractTotalKm ==
    /\ "deal" \in DOMAIN config
    /\ Call("contract_total_km", contract_total_km(config["deal"]))

CallActualTotalKm ==
    /\ "deal" \in DOMAIN config
    /\ Call("actual_total_km_over_period", actual_total_km_over_period(config["deal"]))

CallEnergy == Call("compute_energy_cost", compute_energy_cost(config))

CallMaintenance == Call("compute_maintenance_cost", compute_maintenance_cost(config))

CallTires == Call("compute_tires_cost", compute_tires_cost(config))

CallInsurance == Call("compute_insurance_cost", compute_insurance_cost(config))

CallExcessPenalty ==
    Call("compute_excess_mileage_penalty", compute_excess_mileage_penalty(config))

CallIk == Call("compute_ik_amount_total", compute_ik_amount_total(config))

CallMain == Call("main", main(config))

\* the web front-end: tco = tco_cumulatif_par_mois(config)
CallSeries == Call("tco_cumulatif_par_mois", tco_cumulatif_par_mois(config))

\* the variables of the scale specification, unused by the calculators
ScaleIdle ==
    /\ distance_km = Zero
    /\ cv = 5
    /\ is_electric = TRUE
    /\ amount = None
    /\ n_calls = 0

----------------------------------------------------------------------------
(* Specification of the mileage functions of the deal section.             *)

InitDeal ==
    /\ \E months \in Opt("months", {I(12), I(30), I(48)}),
          annual_km \in Opt("annual_km", {I(0), I(10000)}),
          actual_annual_km \in Opt("actual_annual_km", {I(0), I(20000)}),
          actual_total_km \in Opt("actual_total_km", {I(0), I(70000)}),
          rate \in Opt("excess_rate_eur_per_km", {R(-1, 10), Zero, R(1, 10)}),
          free \in Opt("excess_free_km", {I(-500), Zero, I(1000)}) :
            config = WithSection(EmptySections, "deal",
                        months @@ annual_km @@ actual_annual_km @@ actual_total_km
                            @@ rate @@ free)
    /\ called = "none"
    /\ result = None
    /\ pc = "merged"
    /\ ScaleIdle

NextDeal == CallContractTotalKm \/ CallActualTotalKm \/ CallExcessPenalty

SpecDeal == InitDeal /\ [][NextDeal]_vars

----------------------------------------------------------------------------
(* Specification of the mileage-indemnity total.  With months = 0 the      *)
(* annualized path divides by years = 1e-9, so the distances offered there *)
(* are kept to 1 km x 2 days: the annual distance then still fits TLC's    *)
(* 32-bit integers.                                                        *)

InitIk ==
    /\ \E months \in Opt("months", {I(0), I(6), I(48)}),
          enabled \in Opt("enabled", {TRUE, FALSE}),
          vehicle_cv \in Opt("vehicle_cv", {I(3), I(7)}),
          electric \in Opt("is_electric", {FALSE}),
          km_per_day \in Opt("km_per_day", {I(-5), I(1), I(30), I(60)}),
          company_cap \in Opt("company_cap_km_per_day", {Zero, I(40)}),
          worked_days \in Opt("worked_days", {I(2), I(200)}),
          days_is_annual \in Opt("days_is_annual", {FALSE}),
          annualize \in Opt("annualize", {FALSE}) :
            /\ (months = ("months" :> I(0)) =>
                    /\ km_per_day \in Opt("km_per_day", {I(1)})
                    /\ worked_days \in Opt("worked_days", {I(2)}))
            /\ config = WithSection(WithSection(EmptySections, "deal", months), "ik",
                            enabled @@ vehicle_cv @@ electric @@ km_per_day
                                @@ company_cap @@ worked_days @@ days_is_annual
                                @@ annualize)
    /\ called = "none"
    /\ result = None
    /\ pc = "merged"
    /\ ScaleIdle

NextIk == CallIk

SpecIk == InitIk /\ [][NextIk]_vars

----------------------------------------------------------------------------
(* Specification of a run: a configuration is loaded from JSON with any    *)
(* fields or sections left out, merge_overrides ensures the six sections,  *)
(* and the calculators are applied to the result.                          *)

MaxMissing == 2

TypicalConfig ==
    [deal |-> [monthly_rent |-> I(350), months |-> I(48), annual_km |-> I(15000),
               upfront_costs |-> I(400), accessories_total |-> I(150),
               other_fixed_costs |-> I(90), charging_credits_total |-> I(200),
               restitution_fees |-> I(300), actual_annual_km |-> I(20000),
               actual_total_km |-> I(70000), excess_rate_eur_per_km |-> R(1, 10),
               excess_free_km |-> I(1000)],
     energy |-> [kwh_per_100km |-> I(17), share_free |-> R(1, 4),
                 home_price_eur_per_kwh |-> R(23, 100),
                 public_price_eur_per_kwh |-> R(45, 100),
                 share_home_of_paid |-> R(1, 2)],
     maintenance |-> [maint_eur_per_year |-> I(200), tire_set_cost |-> I(700),
                      tire_sets_included |-> I(1), expected_tire_sets_total |-> I(3)],
     insurance |-> [eur_per_month |-> I(65)],
     buyout |-> [enabled |-> FALSE, option_fee |-> I(500), residual_value |-> I(18000),
                 resale_value_after_buyout |-> I(16000)],
     ik |-> [enabled |-> TRUE, vehicle_cv |-> I(5), is_electric |-> TRUE,
             km_per_day |-> I(30), company_cap_km_per_day |-> I(0),
             worked_days |-> I(200), days_is_annual |-> TRUE, annualize |-> TRUE]]

\* every numeric field 0 and every boolean false
ZeroConfig ==
    [s \in Sections |->
        [f \in DOMAIN TypicalConfig[s] |->
            IF f \in {"enabled", "is_electric", "days_is_annual", "annualize"}
                THEN FALSE ELSE Zero]]

\* fields and sections of the typical configuration that cfg leaves out
Missing(cfg) ==
    LET in(s) == IF s \in DOMAIN cfg
                    THEN Cardinality(DOMAIN TypicalConfig[s] \ DOMAIN cfg[s])
                    ELSE 1
    IN  in("deal") + in("energy") + in("maintenance") + in("insurance")
            + in("buyout") + in("ik")

Without(dict, key) == [k \in DOMAIN dict \ {key} |-> dict[k]]

Init ==
    /\ config \in {TypicalConfig, ZeroConfig, EmptySections, EmptyConfig}
    /\ called = "none"
    /\ result = None
    /\ pc = "loaded"
    /\ ScaleIdle

\* the JSON file leaves a field out
DropField(s, f) ==
    /\ pc = "loaded"
    /\ Missing(config) < MaxMissing
    /\ s \in DOMAIN config
    /\ f \in DOMAIN config[s]
    /\ config' = [config EXCEPT ![s] = Without(config[s], f)]
    /\ UNCHANGED <<called, result, distance_km, cv, is_electric, amount, pc, n_calls>>

\* the JSON file leaves a section out
DropSection(s) ==
    /\ pc = "loaded"
    /\ Missing(config) < MaxMissing
    /\ s \in DOMAIN config
    /\ config' = Without(config, s)
    /\ UNCHANGED <<called, result, distance_km, cv, is_electric, amount, pc, n_calls>>

MergeOverrides(args) ==
    /\ pc = "loaded"
    /\ config' = merge_overrides(config, args)
    /\ pc' = "merged"
    /\ UNCHANGED <<called, result, distance_km, cv, is_electric, amount, n_calls>>

Next ==
    \/ \E s \in Sections : \E f \in DOMAIN TypicalConfig[s] : DropField(s, f)
    \/ \E s \in Sections : DropSection(s)
    \/ MergeOverrides(NoArgs)
    \/ CallContractTotalKm
    \/ CallActualTotalKm
    \/ CallEnergy
    \/ CallMaintenance
    \/ CallTires
    \/ CallInsurance
    \/ CallExcessPenalty
    \/ CallIk

Spec == Init /\ [][Next]_vars

----------------------------------------------------------------------------
(* Specification of the energy cost: shares below 0, inside and above      *)
(* [0,1], with and without the actual distances.                           *)

InitEnergy ==
    /\ \E months \in Opt("months", {I(12), I(48)}),
          annual_km \in Opt("annual_km", {Zero, I(10000)}),
          actual_annual \in Opt("actual_annual_km", {I(20000)}),
          actual_total \in Opt("actual_total_km", {I(70000)}),
          kwh \in Opt("kwh_per_100km", {I(17), I(20)}),
          share_free \in Opt("share_free", {R(-1, 2), Zero, R(1, 4), One, R(3, 2)}),
          share_home \in Opt("share_home_of_paid", {I(-1), Zero, R(1, 2), One, I(2)}),
          home_price \in Opt("home_price_eur_per_kwh", {R(23, 100)}),
          public_price \in Opt("public_price_eur_per_kwh", {R(1, 2)}) :
            config = [EmptySections EXCEPT
                        !["deal"] = months @@ annual_km @@ actual_annual @@ actual_total,
                        !["energy"] = kwh @@ share_free @@ share_home
                                          @@ home_price @@ public_price]
    /\ called = "none"
    /\ result = None
    /\ pc = "merged"
    /\ ScaleIdle

NextEnergy == CallEnergy

SpecEnergy == InitEnergy /\ [][NextEnergy]_vars

----------------------------------------------------------------------------
(* Specification of the tires cost: fewer, as many and more sets expected  *)
(* than included, at a positive, zero and negative price.                  *)

InitTires ==
    /\ \E months \in Opt("months", {I(48)}),
          maint_year \in Opt("maint_eur_per_year", {I(200)}),
          tire_cost \in Opt("tire_set_cost", {I(-50), Zero, I(700)}),
          included \in Opt("tire_sets_included", {Zero, I(1), I(2)}),
          expected \in Opt("expected_tire_sets_total", {Zero, I(1), I(3)}) :
            config = [EmptySections EXCEPT
                        !["deal"] = months,
                        !["maintenance"] = maint_year @@ tire_cost @@ included @@ expected]
    /\ called = "none"
    /\ result = None
    /\ pc = "merged"
    /\ ScaleIdle

NextTires == CallTires \/ CallMaintenance

SpecTires == InitTires /\ [][NextTires]_vars

----------------------------------------------------------------------------
(* Specification of the report: configurations that vary the duration, the *)
(* credits, the end-of-lease fields and the indemnity, handed to main.     *)
(* The indemnity offered is 1 km x 2 days in total, which keeps the        *)
(* annual distance within TLC's integers when years is floored to 1e-9;    *)
(* it is for a thermal vehicle, which keeps the shares of the total within *)
(* them too.                                                               *)

IkSmall ==
    [enabled |-> TRUE, is_electric |-> FALSE, km_per_day |-> I(1),
     worked_days |-> I(2), days_is_annual |-> FALSE]

InitMain ==
    /\ \E months \in Opt("months", {I(-12), I(0), I(12), I(48)}),
          rent \in Opt("monthly_rent", {I(350)}),
          credits \in Opt("charging_credits_total", {I(-200), Zero, I(200)}),
          fees \in Opt("restitution_fees", {I(300)}),
          enabled \in Opt("enabled", {TRUE, FALSE}),
          option_fee \in Opt("option_fee", {I(500)}),
          residual \in Opt("residual_value", {I(18000)}),
          resale \in Opt("resale_value_after_buyout", {Zero, I(16000)}),
          ik \in {<< >>, IkSmall, IkSmall @@ ("annualize" :> FALSE)} :
            config = [EmptySections EXCEPT
                        !["deal"] = months @@ rent @@ credits @@ fees,
                        !["buyout"] = enabled @@ option_fee @@ residual @@ resale,
                        !["ik"] = ik]
    /\ called = "none"
    /\ result = None
    /\ pc = "merged"
    /\ ScaleIdle

NextMain == CallMain \/ CallSeries \/ CallIk

SpecMain == InitMain /\ [][NextMain]_vars

----------------------------------------------------------------------------
(* Specification of the merge: a loaded configuration and command-line     *)
(* overrides, negative ones among them.                                    *)

ArgSets ==
    { annual_km @@ excess_rate @@ excess_free_km @@ home_price @@ tire_included :
        annual_km \in Opt("annual_km", {I(-5), I(20000)}),
        excess_rate \in Opt("excess_rate", {R(-1, 10), R(1, 5)}),
        excess_free_km \in Opt("excess_free_km", {I(-500), I(1000)}),
        home_price \in Opt("home_price", {R(-1, 100)}),
        tire_included \in Opt("tire_included", {I(-1), I(2)}) }

InitMerge ==
    /\ config \in {TypicalConfig, EmptyConfig}
    /\ called = "none"
    /\ result = None
    /\ pc = "loaded"
    /\ ScaleIdle

NextMerge == (\E args \in ArgSets : MergeOverrides(args)) \/ CallExcessPenalty

SpecMerge == InitMerge /\ [][NextMerge]_vars

----------------------------------------------------------------------------
(* Properties of the scale.                                                *)

IsNumber(x) == "n" \in DOMAIN x

\* the scale of one coefficient row, as the schedule states it
ScheduleAmount(d, row, electric) ==
    LET tiered == IF RLe(d, I(5000)) THEN RMul(d, row.a1)
                  ELSE IF RLe(d, I(20000)) THEN RAdd(RMul(d, row.a2a), row.a2b)
                  ELSE RMul(d, row.a3)
    IN  IF electric THEN RMul(tiered, R(6, 5)) ELSE tiered

\* marginal rate per km of the tier that starts right after a boundary
UpperRate(boundary, row) == IF boundary = I(5000) THEN row.a2a ELSE row.a3

\* C1: for a non-electric vehicle, when the scale is evaluated at a tier
\* boundary (5000 or 20000 km) and then one km further, the amount does not
\* drop, and the formulas of the two adjacent tiers agree at the boundary
\* (the step over the boundary is exactly one km at the upper tier's rate).
C1_BoundaryContinuousNonDecreasing ==
    [][ ( /\ pc = "input"
          /\ pc' = "output"
          /\ IsNumber(amount)
          /\ ~is_electric
          /\ distance_km \in {I(5001), I(20001)} )
        => ( /\ RLe(amount, amount')
             /\ RSub(amount', amount)
                  = UpperRate(RSub(distance_km, One), coeffs[cv_key(cv)]) ) ]_vars

\* C2: for every distance >= 0 the returned amount is the three-tier amount
\* of the coefficient row of the fiscal power (d*a1 up to 5000, d*a2a + a2b
\* up to 20000, d*a3 beyond), multiplied by 1.20 exactly when is_electric.
C2_ThreeTierThenBonus ==
    (pc = "output" /\ RLe(Zero, distance_km))
        => amount = ScheduleAmount(distance_km, coeffs[cv_key(cv)], is_electric)

C2_Witness ==
    /\ pc = "output"
    /\ is_electric
    /\ distance_km = I(4999)
    /\ cv = 5
    /\ amount = R(4999 * 636 * 6, 5000)

\* C3 (as amended): for fiscal power 5, non-electric, the amount at 5000 km
\* is 3180.0 and the amount at 5001 km is 5001*0.357 + 1385 = 3170.357.
C3_Cv5BoundaryValues ==
    (pc = "output" /\ cv = 5 /\ ~is_electric)
        => /\ (distance_km = I(5000) => amount = I(3180))
           /\ (distance_km = I(5001) => amount = R(3170357, 1000))

C3_Witness ==
    /\ pc = "output"
    /\ cv = 5
    /\ ~is_electric
    /\ distance_km = I(5001)
    /\ amount = RAdd(RMul(I(5001), Milli(357)), I(1385))

\* C3 (as stated): for fiscal power 5, non-electric, the amount at 5000 km
\* is 3180.0 and the amount at 5001 km is approximately 4556.357 (within
\* one euro).
C3_AsStated ==
    (pc = "output" /\ cv = 5 /\ ~is_electric)
        => /\ (distance_km = I(5000) => amount = I(3180))
           /\ (distance_km = I(5001) =>
                  /\ RLe(R(4555357, 1000), amount)
                  /\ RLe(amount, R(4557357, 1000)))

\* C4: the fiscal power is clamped to [1,7] before the lookup: cv >= 7 gives
\* the amount of row 7, cv <= 1 the amount of row 1, any cv in between the
\* amount of its own row, and cv = 1, 2, 3 all give the amount of row 1.
C4_FiscalPowerClamped ==
    pc = "output" =>
        LET d == IF RLt(distance_km, Zero) THEN Zero ELSE distance_km
        IN  /\ (cv >= 7 => amount = ScheduleAmount(d, coeffs[7], is_electric))
            /\ (cv <= 1 => amount = ScheduleAmount(d, coeffs[1], is_electric))
            /\ (cv \in 1..7 => amount = ScheduleAmount(d, coeffs[cv], is_electric))
            /\ (cv \in {1, 2, 3} => amount = ScheduleAmount(d, coeffs[1], is_electric))

C4_Witness ==
    /\ pc = "output"
    /\ cv = 9
    /\ distance_km = I(12000)
    /\ amount = RAdd(RMul(I(12000), Milli(394)), I(1517))

\* C5: the scale always returns a number, never a negative one, and a
\* negative distance yields 0.
C5_NeverNegative ==
    pc = "output" =>
        /\ IsNumber(amount)
        /\ RLe(Zero, amount)
        /\ (RLt(distance_km, Zero) => amount = Zero)

C5_Witness ==
    /\ pc = "output"
    /\ distance_km = I(-100)
    /\ cv = -1
    /\ amount = Zero

----------------------------------------------------------------------------
(* Properties of the excess-mileage penalty.                               *)

\* C6: the penalty is max(0, actual - contract - excess_free_km) * rate with
\* contract = annual_km * months/12, the franchise subtracted once for the
\* whole period, a negative rate or franchise counted as 0; it is 0 when
\* neither actual_annual_km nor actual_total_km is set, and never negative.
C6_ExcessPenaltyFormula ==
    called = "compute_excess_mileage_penalty" =>
        LET deal == config["deal"]
            months == IF "months" \in DOMAIN deal THEN deal["months"] ELSE I(48)
            annual == IF "annual_km" \in DOMAIN deal THEN deal["annual_km"] ELSE I(15000)
            contract == RDiv(RMul(annual, months), I(12))
            rate0 == IF "excess_rate_eur_per_km" \in DOMAIN deal
                        THEN deal["excess_rate_eur_per_km"] ELSE Zero
            free0 == IF "excess_free_km" \in DOMAIN deal THEN deal["excess_free_km"] ELSE Zero
            rate == IF RLt(rate0, Zero) THEN Zero ELSE rate0
            free == IF RLt(free0, Zero) THEN Zero ELSE free0
            actual == IF "actual_total_km" \in DOMAIN deal THEN deal["actual_total_km"]
                      ELSE RDiv(RMul(deal["actual_annual_km"], months), I(12))
            over == RSub(RSub(actual, contract), free)
        IN  /\ Returned(result)
            /\ RLe(Zero, result)
            /\ IF {"actual_total_km", "actual_annual_km"} \cap DOMAIN deal = {}
                   THEN result = Zero
                   ELSE result = (IF RLt(over, Zero) THEN Zero ELSE RMul(over, rate))

C6_Witness ==
    /\ called = "compute_excess_mileage_penalty"
    /\ config["deal"] = ("months" :> I(48)) @@ ("actual_total_km" :> I(70000))
                            @@ ("excess_rate_eur_per_km" :> R(1, 10))
                            @@ ("excess_free_km" :> I(1000))
    /\ result = I(900)

\* C7: actual_total_km, when present (0 included), is returned as it is
\* whatever actual_annual_km and months are; when it is absent the result is
\* actual_annual_km * months/12, and None when both are absent.
C7_ActualTotalOverrides ==
    called = "actual_total_km_over_period" =>
        LET deal == config["deal"]
            months == IF "months" \in DOMAIN deal THEN deal["months"] ELSE I(48)
        IN  IF "actual_total_km" \in DOMAIN deal
                THEN result = deal["actual_total_km"]
            ELSE IF "actual_annual_km" \in DOMAIN deal
                THEN result = RDiv(RMul(deal["actual_annual_km"], months), I(12))
            ELSE ~Returned(result) /\ result.tag = "None"

C7_Witness ==
    /\ called = "actual_total_km_over_period"
    /\ Get(config["deal"], "months", None) = I(48)
    /\ Get(config["deal"], "actual_annual_km", None) = I(20000)
    /\ Get(config["deal"], "actual_total_km", None) = I(70000)
    /\ result = I(70000)

----------------------------------------------------------------------------
(* Properties of the mileage-indemnity total.                              *)

\* the inputs of the indemnity total as the configuration gives them
IkEnabled == Get(config["ik"], "enabled", FALSE)
IkAnnualize == Get(config["ik"], "annualize", TRUE)
IkCv == Get(config["ik"], "vehicle_cv", I(5)).n
IkElectric == Get(config["ik"], "is_electric", TRUE)
IkMonths == config["deal"]["months"]
IkYears ==
    IF RLt(RDiv(IkMonths, I(12)), R(1, 1000000000))
        THEN R(1, 1000000000) ELSE RDiv(IkMonths, I(12))
IkWorkedDaysTotal ==
    IF Get(config["ik"], "days_is_annual", TRUE)
        THEN RDiv(RMul(Get(config["ik"], "worked_days", Zero), IkMonths), I(12))
        ELSE Get(config["ik"], "worked_days", Zero)
IkPerDayEligible ==
    LET km == Get(config["ik"], "km_per_day", Zero)
        cap == Get(config["ik"], "company_cap_km_per_day", Zero)
    IN  IF RLt(Zero, cap) THEN (IF RLt(cap, km) THEN cap ELSE km) ELSE km
IkTotalEligibleKm == RMul(IkPerDayEligible, IkWorkedDaysTotal)

\* C8: for a configuration that gives deal.months, with ik.enabled and
\* ik.annualize true the indemnity total is years * indemnity(total / years)
\* with years = months/12 floored to 1e-9: the scale is applied to the
\* average annual distance and the result rescaled linearly.
C8_AnnualizedIsRescaledAnnualAmount ==
    ( /\ called = "compute_ik_amount_total"
      /\ "months" \in DOMAIN config["deal"]
      /\ IkEnabled
      /\ IkAnnualize )
        => result = RMul(IkYears,
                         k_amount_for_distance_km(RDiv(IkTotalEligibleKm, IkYears),
                                                  IkCv, IkElectric))

\* 30 km x 200 days a year over 48 months: 6000 km a year is priced in the
\* middle tier although the total of 24000 km lies in the upper one
C8_Witness ==
    /\ called = "compute_ik_amount_total"
    /\ config["deal"] = ("months" :> I(48))
    /\ config["ik"] = ("enabled" :> TRUE) @@ ("km_per_day" :> I(30))
                          @@ ("worked_days" :> I(200))
    /\ result = RMul(I(4), RMul(RAdd(RMul(I(6000), Milli(357)), I(1385)), R(6, 5)))

\* C9: the indemnity total is 0 when ik.enabled is false; for a configuration
\* that gives deal.months it is 0 when total_eligible_km <= 0 and, with
\* annualize false, indemnity(total_eligible_km) otherwise, where the total
\* is per-day eligible km (capped only by a cap > 0) times the worked days
\* (scaled by months/12 when days_is_annual); a returned amount is never
\* negative.
C9_IndemnityTotalSingleShot ==
    called = "compute_ik_amount_total" =>
        /\ (~IkEnabled => result = Zero)
        /\ (Returned(result) => RLe(Zero, result))
        /\ (IkEnabled /\ "months" \in DOMAIN config["deal"]) =>
              /\ Returned(result)
              /\ (RLe(IkTotalEligibleKm, Zero) => result = Zero)
              /\ (RLt(Zero, IkTotalEligibleKm) /\ ~IkAnnualize) =>
                    result = k_amount_for_distance_km(IkTotalEligibleKm, IkCv, IkElectric)

\* 60 km a day capped at 40, 200 days a year over 48 months: 32000 km
C9_Witness ==
    /\ called = "compute_ik_amount_total"
    /\ config["deal"] = ("months" :> I(48))
    /\ config["ik"] = ("enabled" :> TRUE) @@ ("km_per_day" :> I(60))
                          @@ ("company_cap_km_per_day" :> I(40))
                          @@ ("worked_days" :> I(200)) @@ ("annualize" :> FALSE)
    /\ result = RMul(RMul(I(32000), Milli(427)), R(6, 5))

----------------------------------------------------------------------------
(* Properties of the calculators as a whole.                               *)

CategoryCalculators ==
    {"compute_energy_cost", "compute_maintenance_cost", "compute_tires_cost",
     "compute_insurance_cost", "compute_excess_mileage_penalty",
     "compute_ik_amount_total"}

\* C10: whatever fields or sections the loaded configuration leaves out, each
\* of the six category calculators returns an amount instead of raising, and
\* for the all-zero configuration each returns 0.
C10_NoCalculatorFails ==
    called \in CategoryCalculators =>
        /\ Returned(result)
        /\ (config = ZeroConfig => result = Zero)

----------------------------------------------------------------------------
(* Properties of the report.                                               *)

\* main ran to its end and the result holds the rows
Reported == called = "main" /\ "rows" \in DOMAIN result

RowValue(label) ==
    result.rows[CHOOSE i \in DOMAIN result.rows : result.rows[i][1] = label][2]

BuyoutEnabled == Get(config["buyout"], "enabled", FALSE)

\* C11: with buyout.enabled false the option-fee, residual-value and resale
\* rows are 0 and the restitution row is deal.restitution_fees; with it true
\* the restitution row is 0, the option-fee and residual-value rows are
\* buyout.option_fee and buyout.residual_value and the resale row is the
\* negated resale_value_after_buyout if given, else 0; never are rows of
\* both blocks non-zero.
C11_OneTrailingBlock ==
    Reported =>
        LET restitution == RowValue("Frais de restitution")
            option == RowValue("Frais d'option d'achat")
            vr == RowValue("Valeur de rachat (VR)")
            resale == RowValue("Revente (deduite)")
            deal == config["deal"]
            bo == config["buyout"]
        IN  /\ Len(result.rows) = 15
            /\ ~BuyoutEnabled =>
                  /\ restitution = Get(deal, "restitution_fees", Zero)
                  /\ option = Zero /\ vr = Zero /\ resale = Zero
            /\ BuyoutEnabled =>
                  /\ restitution = Zero
                  /\ option = Get(bo, "option_fee", Zero)
                  /\ vr = Get(bo, "residual_value", Zero)
                  /\ resale = (IF "resale_value_after_buyout" \in DOMAIN bo
                                  THEN RNeg(bo["resale_value_after_buyout"]) ELSE Zero)
            /\ ~(restitution # Zero /\ (option # Zero \/ vr # Zero \/ resale # Zero))

C11_Witness ==
    /\ Reported
    /\ BuyoutEnabled
    /\ Get(config["deal"], "restitution_fees", Zero) = I(300)
    /\ RowValue("Frais de restitution") = Zero
    /\ RowValue("Frais d'option d'achat") = I(500)
    /\ RowValue("Valeur de rachat (VR)") = I(18000)
    /\ RowValue("Revente (deduite)") = I(-16000)

RECURSIVE SumUpTo(_, _)
SumUpTo(rows, i) == IF i = 0 THEN Zero ELSE RAdd(SumUpTo(rows, i - 1), rows[i][2])

ChargingCredits == Get(config["deal"], "charging_credits_total", Zero)

\* C18: in the rows built by main the charging-credits row is minus the
\* absolute value of deal.charging_credits_total (its negation when the field
\* is not negative), the mileage-indemnity row is the negation of
\* compute_ik_amount_total, and the scenario total is the sum of the signed
\* row amounts.
C18_CreditsAndIndemnityReduce ==
    Reported =>
        /\ RowValue("Credits recharge (deduits)") = RNeg(RMax(ChargingCredits, RNeg(ChargingCredits)))
        /\ RowValue("Indemnites kilometriques (deduites)") = RNeg(compute_ik_amount_total(config))
        /\ result.total = SumUpTo(result.rows, Len(result.rows))

C18_Witness ==
    /\ Reported
    /\ ChargingCredits = I(-200)
    /\ RowValue("Credits recharge (deduits)") = I(-200)
    /\ RLt(RowValue("Indemnites kilometriques (deduites)"), Zero)

\* C18 as stated: the charging-credits row is the negation of
\* deal.charging_credits_total for every value of the field.
C18_AsStated ==
    Reported => RowValue("Credits recharge (deduits)") = RNeg(ChargingCredits)

----------------------------------------------------------------------------
(* Properties of the monthly cumulative series.                            *)

\* the series was produced: main's calculators all returned
SeriesProduced == called = "tco_cumulatif_par_mois" /\ "rows" \in DOMAIN main(config)

DealMonths == int(Get(config["deal"], "months", I(48)))

AllNonNegative(rows) == \A i \in DOMAIN rows : RLe(Zero, rows[i][2])

\* C12: the monthly cumulative series of a configuration has length months
\* (a duration of at least 0), is non-decreasing when all category totals
\* are non-negative, and its last element is the scenario total of the same
\* configuration (a duration of at least one month).
C12_SeriesLengthMonotoneTotal ==
    SeriesProduced =>
        LET report == main(config)
        IN  /\ DealMonths >= 0 => Len(result) = DealMonths
            /\ AllNonNegative(report.rows) =>
                  \A i \in DOMAIN result : i > 1 => RLe(result[i - 1], result[i])
            /\ DealMonths >= 1 => result[DealMonths] = report.total

C12_Witness ==
    /\ SeriesProduced
    /\ DealMonths = 48
    /\ AllNonNegative(main(config).rows)
    /\ Len(result) = 48
    /\ RLt(result[1], result[48])
    /\ RLt(Zero, result[48])

----------------------------------------------------------------------------
(* Properties of the energy cost.                                          *)

\* a share brought into [0,1]: below 0 counts as 0, above 1 as 1
ClampedShare(x) == IF RLt(x, Zero) THEN Zero ELSE IF RLt(One, x) THEN One ELSE x

EnergyFormula(months, annual_km, kwh_per_100km, share_free, share_home, home_price, public_price) ==
    LET total_kwh == RMul(RMul(annual_km, R(months, 12)), RDiv(kwh_per_100km, I(100)))
        paid_kwh == RMul(total_kwh, RSub(One, share_free))
        home_kwh == RMul(paid_kwh, share_home)
        public_kwh == RSub(paid_kwh, home_kwh)
    IN  RAdd(RMul(home_kwh, home_price), RMul(public_kwh, public_price))

\* C13: compute_energy_cost is home_kwh*home_price + public_kwh*public_price
\* on the contractual distance, with total kWh = annual_km * months/12 *
\* kwh_per_100km/100, paid kWh = total * (1 - share_free), home kWh = paid *
\* share_home_of_paid and public kWh the rest, both shares clamped into
\* [0,1]; actual_annual_km and actual_total_km do not change the result.
C13_EnergyOnContractKm ==
    called = "compute_energy_cost" =>
        LET deal == config["deal"]
            energy == config["energy"]
            contractual == [config EXCEPT !["deal"] =
                              [f \in DOMAIN deal \ {"actual_annual_km", "actual_total_km"}
                                  |-> deal[f]]]
        IN  /\ result = EnergyFormula(Get(deal, "months", I(48)).n,
                                      Get(deal, "annual_km", I(15000)),
                                      Get(energy, "kwh_per_100km", I(17)),
                                      ClampedShare(Get(energy, "share_free", Zero)),
                                      ClampedShare(Get(energy, "share_home_of_paid", One)),
                                      Get(energy, "home_price_eur_per_kwh", R(23, 100)),
                                      Get(energy, "public_price_eur_per_kwh", R(45, 100)))
            /\ result = compute_energy_cost(contractual)
            /\ (/\ Get(deal, "months", I(48)) = I(48)
                /\ Get(deal, "annual_km", I(15000)) = I(15000)
                /\ Get(energy, "kwh_per_100km", I(17)) = I(17)
                /\ RLe(Get(energy, "share_free", Zero), Zero)
                /\ RLe(One, Get(energy, "share_home_of_paid", One))
                /\ Get(energy, "home_price_eur_per_kwh", R(23, 100)) = R(23, 100))
               => result = I(2346)

\* the 2346.00 example reached with a free share of -1/2 and a home share
\* of 2, and with the actual distance given
C13_Witness ==
    /\ called = "compute_energy_cost"
    /\ Present(config["deal"], "actual_total_km")
    /\ Present(config["deal"], "months") /\ config["deal"]["months"] = I(48)
    /\ ~Present(config["deal"], "annual_km")
    /\ Present(config["energy"], "share_free") /\ config["energy"]["share_free"] = R(-1, 2)
    /\ Present(config["energy"], "share_home_of_paid")
    /\ config["energy"]["share_home_of_paid"] = I(2)
    /\ result = I(2346)

----------------------------------------------------------------------------
(* Properties of the merge.                                                *)

\* the contractual distance, the rates and prices, and the counts
NonNegativeFields ==
    { <<"deal", "annual_km">>, <<"deal", "excess_rate_eur_per_km">>,
      <<"deal", "excess_free_km">>, <<"deal", "monthly_rent">>,
      <<"energy", "kwh_per_100km">>, <<"energy", "home_price_eur_per_kwh">>,
      <<"energy", "public_price_eur_per_kwh">>,
      <<"maintenance", "maint_eur_per_year">>, <<"maintenance", "tire_set_cost">>,
      <<"maintenance", "tire_sets_included">>,
      <<"maintenance", "expected_tire_sets_total">>,
      <<"insurance", "eur_per_month">> }

\* C14: after merge_overrides, whatever the loaded configuration and the
\* overrides, deal.annual_km, every rate and price and every count of the
\* configuration are non-negative (negative overrides of the penalty rate
\* and of the franchise being stored as 0).
C14_NonNegativeAfterMerge ==
    pc = "merged" =>
        \A sf \in NonNegativeFields :
            Present(config[sf[1]], sf[2]) => RLe(Zero, config[sf[1]][sf[2]])

----------------------------------------------------------------------------
(* Properties of the tires cost.                                           *)

TireSetsIncluded == Get(config["maintenance"], "tire_sets_included", Zero)

TireSetsExpected == Get(config["maintenance"], "expected_tire_sets_total", Zero)

\* C16: compute_tires_cost is max(0, expected_tire_sets_total -
\* tire_sets_included) * tire_set_cost: 0 whenever the expected sets do not
\* exceed the included ones, whatever the price of a set, and otherwise the
\* price of the sets beyond the included ones only.
C16_TiresBeyondIncluded ==
    called = "compute_tires_cost" =>
        LET tire_set_cost == Get(config["maintenance"], "tire_set_cost", I(700))
        IN  /\ RLe(TireSetsExpected, TireSetsIncluded) => result = Zero
            /\ RLt(TireSetsIncluded, TireSetsExpected) =>
                  result = RMul(RSub(TireSetsExpected, TireSetsIncluded), tire_set_cost)

C16_Witness ==
    /\ called = "compute_tires_cost"
    /\ TireSetsExpected = I(1)
    /\ TireSetsIncluded = I(2)
    /\ Present(config["maintenance"], "tire_set_cost")
    /\ config["maintenance"]["tire_set_cost"] = I(700)
    /\ result = Zero

----------------------------------------------------------------------------
(* Properties of the calculators as readers of the configuration.          *)

\* C17: a calculator call leaves the merged configuration as it was, every
\* section and field at its value and no field added, and the same
\* calculator called again returns the same result.
C17_CalculatorsReadOnly ==
    [][pc = "merged" =>
          /\ config' = config
          /\ called' = called => result' = result]_vars

\* the default duration served the insurance total and was not written back
C17_Witness ==
    /\ called = "compute_insurance_cost"
    /\ ~Present(config["deal"], "months")
    /\ result = I(3120)

----------------------------------------------------------------------------
(* Properties of the defaults.                                             *)

\* C15: an absent field takes the default of the parameter dataclasses:
\* without insurance.eur_per_month the insurance total is 65.0 * months
\* (InsuranceParams), without deal.monthly_rent the rent row is
\* 350.0 * months (DealParams); stated for a duration of at least a month.
C15_DataclassDefaults ==
    Reported /\ DealMonths >= 1 =>
        /\ ~Present(config["insurance"], "eur_per_month") =>
              RowValue("Assurance") = RMul(I(65), I(DealMonths))
        /\ ~Present(config["deal"], "monthly_rent") =>
              RowValue("Loyers LOA") = RMul(I(350), I(DealMonths))

----------------------------------------------------------------------------
(* Properties of the divisions by the duration.                            *)

IkAnnualizedOnDuration ==
    /\ Get(config["ik"], "enabled", FALSE)
    /\ Get(config["ik"], "annualize", TRUE)
    /\ Present(config["deal"], "months")

\* C19: with months <= 0 no division by zero occurs: format_rows gives a
\* per-month figure of 0 for every row and for the total, and a share of 0
\* for every row when the total is within 1e-9 of 0; compute_ik_amount_total
\* on its annualized path returns an amount for months = 0.
C19_NoDivisionByZero ==
    /\ Reported /\ DealMonths <= 0 =>
          /\ \A i \in DOMAIN result.rows : result.per_month[i] = Zero
          /\ result.total_per_month = Zero
    /\ Reported /\ RLe(result.total, R(1, 1000000000))
                /\ RLe(R(-1, 1000000000), result.total) =>
          \A i \in DOMAIN result.rows : result.part[i] = Zero
    /\ called = "compute_ik_amount_total" /\ IkAnnualizedOnDuration /\ DealMonths <= 0 =>
          Returned(result)

\* a report for a duration of 0 months with an annualized indemnity of 0.854
C19_Witness ==
    /\ Reported
    /\ DealMonths = 0
    /\ IkAnnualizedOnDuration
    /\ RowValue("Indemnites kilometriques (deduites)") = R(-427, 500)
    /\ RowValue("Valeur de rachat (VR)") = I(18000)
    /\ result.per_month[13] = Zero
    /\ result.total_per_month = Zero

====
